---- MODULE Spec2Model ----
(***************************************************************************)
(* A model of copypg (src/copypg.py): a command line tool that seeds a     *)
(* local database from a production database.                              *)
(*                                                                         *)
(* Texts (the schema dump, SQL statements, the rendered predicate list)    *)
(* are sequences of tokens.  A token is a run of characters that the       *)
(* program's regular expressions and string operations treat as a unit:    *)
(* the literals the patterns name, the characters they single out (comma,  *)
(* semicolon, line break) and runs of other text.                          *)
(***************************************************************************)
EXTENDS Integers, Sequences, FiniteSets, TLC

\* ------------------------------------------------------------------ tokens

CT == "CREATE TABLE "
NV == "bigint DEFAULT nextval"
INV == "integer DEFAULT nextval"
CS == "CREATE SEQUENCE "
SERIAL == "serial"
COMMA == ","
SEMI == ";"
NL == "\n"
WORD == "x"

\* --------------------------------------------------------------- bounds

MaxStmts == 3
MaxBody == 4
MaxRuns == 3
MaxKeys == 3

\* re.MULTILINE, which process_schema passes as re.sub's fourth positional
\* argument: that argument is count, the maximal number of replacements.
MULTILINE == 8

\* ------------------------------------------------------- the schema rewriter

\* "\n".join(list)
RECURSIVE JoinNL(_)
JoinNL(list) ==
    IF Len(list) = 0 THEN <<>>
    ELSE IF Len(list) = 1 THEN list[1]
    ELSE list[1] \o <<NL>> \o JoinNL(Tail(list))

\* The end of the lazy match ".*?;\n" tried from position j: the position of
\* the line break of the first semicolon-line-break pair at or after j, or 0.
\* With re.DOTALL the dot matches every character.
RECURSIVE LazyEnd(_, _)
LazyEnd(text, j) ==
    IF j + 1 > Len(text) THEN 0
    ELSE IF text[j] = SEMI /\ text[j + 1] = NL THEN j + 1
    ELSE LazyEnd(text, j + 1)

\* re.findall("CREATE TABLE .*?;\n", text, re.DOTALL), scanning from i:
\* the non-overlapping matches, left to right.
RECURSIVE FindAllFrom(_, _)
FindAllFrom(text, i) ==
    IF i > Len(text) THEN <<>>
    ELSE IF text[i] = CT /\ LazyEnd(text, i + 1) # 0
    THEN <<SubSeq(text, i, LazyEnd(text, i + 1))>>
             \o FindAllFrom(text, LazyEnd(text, i + 1) + 1)
    ELSE FindAllFrom(text, i + 1)

\* A greedy ".*" instead of the lazy ".*?": one match, from the first keyword
\* to the last semicolon-line-break pair.
FindAllGreedy(text) ==
    LET starts == {i \in 1..Len(text) : text[i] = CT /\ LazyEnd(text, i + 1) # 0}
        ends == {j \in 2..Len(text) : text[j - 1] = SEMI /\ text[j] = NL}
    IN  IF starts = {} THEN <<>>
        ELSE <<SubSeq(text, CHOOSE i \in starts : \A k \in starts : i <= k,
                      CHOOSE j \in ends : \A k \in ends : j >= k)>>

FindAll(text) == FindAllFrom(text, 1)

\* The end of the greedy match ".*," tried from position j with `best` the
\* last comma seen: the last comma before the next line break (the dot does
\* not match a line break: the flags of this re.sub are 0), or 0.
RECURSIVE LastCommaInLine(_, _, _)
LastCommaInLine(t, j, best) ==
    IF j > Len(t) THEN best
    ELSE IF t[j] = NL THEN best
    ELSE LastCommaInLine(t, j + 1, IF t[j] = COMMA THEN j ELSE best)

\* re.sub("bigint DEFAULT nextval.*,", "serial,", t, count), scanning from i.
RECURSIVE SubFrom(_, _, _)
SubFrom(t, i, count) ==
    IF i > Len(t) THEN <<>>
    ELSE IF count > 0 /\ t[i] = NV /\ LastCommaInLine(t, i + 1, 0) # 0
    THEN <<SERIAL, COMMA>>
             \o SubFrom(t, LastCommaInLine(t, i + 1, 0) + 1, count - 1)
    ELSE <<t[i]>> \o SubFrom(t, i + 1, count)

Rewrite(t) == SubFrom(t, 1, MULTILINE)

RewriteAll(list) == [k \in 1..Len(list) |-> Rewrite(list[k])]

\* The alterations put in front instead.
AppendMisplaced(list, alts) == alts \o list

\* processed += alterations
AppendAlterations(list, alts) == list \o alts

\* process_schema's result for the text of raw/prod.schema.sql: the text
\* written to processed/prod.schema.sql.
ProcessSchema(text, alts) ==
    JoinNL(AppendAlterations(RewriteAll(FindAll(text)), alts))


\* ------------------------------------------------------------ configuration

\* config.py: the tables copied whole, the tables sampled (the keys of the
\* large_tables mapping, in its order).
small_tables == <<"people">>
large_tables == <<"events">>

\* Two statements config.alterations may hold.
A1 == <<"ALTER TABLE ", "people", SEMI>>
A2 == <<"CREATE INDEX ", "events", SEMI>>

\* all_tables = small_tables + list(large_tables.keys())
all_tables == small_tables \o large_tables

Range(f) == {f[k] : k \in DOMAIN f}

SmallTables == Range(small_tables)
LargeTables == Range(large_tables)
AllTables == Range(all_tables)

\* The sentinel the download steps put in front of shop_ids.
HACK == "-hack-"

ShopKeys == {"shop_1", "shop_2"}

\* The rows of the production database: a row of a sampled table carries its
\* partition key, which may be any value of the column, the sentinel included.
ProdRows(t) ==
    IF t \in LargeTables
    THEN {[tbl |-> t, id |-> 1, shop_id |-> "shop_1"],
          [tbl |-> t, id |-> 2, shop_id |-> "shop_2"],
          [tbl |-> t, id |-> 3, shop_id |-> HACK]}
    ELSE {[tbl |-> t, id |-> 1, shop_id |-> "none"]}

\* What pg_dump -s writes for all_tables: one table definition per table, a
\* sequence between them, every statement ended by a semicolon and a line break.
RawDump ==
    <<CT, "people", NL, WORD, COMMA, NL, WORD, NL, SEMI, NL,
      CS, WORD, SEMI, NL,
      CT, "events", NL, NV, COMMA, NL, WORD, NL, SEMI, NL>>

\* A file: ABSENT, or Present(its content).
ABSENT == <<>>
Present(c) == <<c>>
Content(f) == f[1]

\* ------------------------------------------------------------------- state

VARIABLES
    cmd,             \* the command of the current run: full, reload, reload_for_shops
    status,          \* idle, running, done (returned), crashed (an exception left it)
    pc,              \* the number of steps of the flow that have returned
    runs,            \* the number of runs started
    shop_ids,        \* config.shop_ids of the current run
    alterations,     \* config.alterations
    invoked,         \* the steps invoked by the current run, in order
    log,             \* the external commands issued by the current run, in order
    all_ok,          \* every external command of the current run had its effect
    repeated,        \* the run repeats the run before: the same command and key set
    db_exists,       \* the local database exists
    table_exists,    \* the tables of the local database
    local_rows,      \* the rows of the local tables: a count for every row
    raw_file,        \* raw/prod.schema.sql
    processed_file,  \* processed/prod.schema.sql
    data_file,       \* raw/prod.data.sql
    csv_file,        \* raw/<table>_<sample>.csv, by table
    ppc,             \* the position inside process_schema
    stmts,           \* the statements the raw schema text was made of
    text,            \* process_schema's text
    found,           \* process_schema's processed after re.findall
    processed        \* process_schema's processed

config == <<shop_ids, alterations>>
run_vars == <<cmd, status, pc, runs, invoked, log, all_ok, repeated>>
db_vars == <<db_exists, table_exists, local_rows>>
file_vars == <<raw_file, processed_file, data_file, csv_file>>
ps_vars == <<ppc, stmts, text, found, processed>>
vars == <<config, run_vars, db_vars, file_vars, ps_vars>>

\* ------------------------------------------------------------ the two flows

\* reload's step list.
ReloadSteps ==
    <<"download_schema", "process_schema", "drop_tables", "create_tables",
      "download_data_for_small_tables",
      "download_sample_of_data_for_large_tables",
      "load_data_for_small_tables", "load_data_for_large_tables">>

\* The three steps with the load in front.
ShopStepsLoadFirst ==
    <<"load_data_for_large_tables", "truncate_large_tables",
      "download_shop_specific_data_for_large_tables">>

\* reload_for_shops' step list.
ShopSteps ==
    <<"truncate_large_tables", "download_shop_specific_data_for_large_tables",
      "load_data_for_large_tables">>

\* full() calls reset_db and then reload().
Steps(c) ==
    IF c = "full" THEN <<"reset_db">> \o ReloadSteps
    ELSE IF c = "reload" THEN ReloadSteps
    ELSE IF c = "reload_for_shops" THEN ShopSteps
    ELSE <<>>

\* The step the loop of the current flow invokes next.
AtStep(name) ==
    /\ status = "running"
    /\ pc < Len(Steps(cmd))
    /\ Steps(cmd)[pc + 1] = name

\* The step returns: the loop goes on to the next name, or the flow returns.
Return(entries, ok) ==
    /\ log' = log \o entries
    /\ all_ok' = (all_ok /\ ok)
    /\ pc' = pc + 1
    /\ status' = IF pc + 1 = Len(Steps(cmd)) THEN "done" ELSE "running"
    /\ UNCHANGED <<cmd, runs, repeated, config>>

\* A step that runs from its invocation to its return in one go.
Returned(name, entries, ok) ==
    /\ invoked' = Append(invoked, name)
    /\ Return(entries, ok)

\* One external command, as the runner gets it.
Command(step, runner, db, what, table, sampled, pred) ==
    [step |-> step, runner |-> runner, db |-> db, what |-> what,
     table |-> table, sampled |-> sampled, pred |-> pred]

EmptyBag(t) == [r \in ProdRows(t) |-> 0]

\* The rows of a table with the rows of a file copied in.
Copied(rows, file) == [r \in DOMAIN rows |-> rows[r] + (IF r \in file THEN 1 ELSE 0)]


\* ------------------------------------------------- the predicate of a download

\* The key set without the sentinel.
InListUnpadded(keys) == keys

\* ('-hack-',) + shop_ids
InList(keys) == <<HACK>> \o keys

\* Python's rendering of a tuple inside an f-string: "(a, b)", "(a,)" for a
\* tuple of one element, "()" for the empty one.
RECURSIVE ReprItems(_)
ReprItems(t) ==
    IF Len(t) = 0 THEN <<>>
    ELSE IF Len(t) = 1 THEN <<t[1]>>
    ELSE <<t[1], ", ">> \o ReprItems(Tail(t))

TupleRepr(t) ==
    IF Len(t) = 1 THEN <<"(", t[1], COMMA, ")">>
    ELSE <<"(">> \o ReprItems(t) \o <<")">>

\* The text after "where shop_id in " in both download commands.
Predicate(keys) == TupleRepr(InList(keys))

\* The database takes "(a, b)" and rejects "(a,)" and "()".
ValidInList(pred) ==
    /\ Len(pred) >= 3
    /\ pred[Len(pred) - 1] # COMMA

\* A query without the where clause.
MatchingUnfiltered(t, keys) == ProdRows(t)

\* The rows the predicate selects.
Matching(t, keys) == {r \in ProdRows(t) : r.shop_id \in Range(InList(keys))}

\* ------------------------------------------------------------------- steps

KeySets == {<<"shop_1">>, <<"shop_1", "shop_2">>}

Commands == {"full", "reload", "reload_for_shops"}

\* python -m copypg <command>, with config.py as it is at that moment.
Start(c, keys) ==
    /\ status # "running"
    /\ runs < MaxRuns
    /\ cmd' = c
    /\ status' = "running"
    /\ pc' = 0
    /\ runs' = runs + 1
    /\ shop_ids' = keys
    /\ invoked' = <<>>
    /\ log' = <<>>
    /\ all_ok' = TRUE
    /\ repeated' = (status = "done" /\ c = cmd /\ keys = shop_ids)
    /\ UNCHANGED <<alterations, db_vars, file_vars, ps_vars>>

\* dropdb local_prod; createdb local_prod, in one shell, silently.
reset_db ==
    /\ AtStep("reset_db")
    /\ \E d \in BOOLEAN, c \in BOOLEAN :
         LET dropped == d /\ db_exists
             left == db_exists /\ ~dropped
             created == c /\ ~left
         IN  /\ db_exists' = (left \/ created)
             /\ table_exists' = IF dropped THEN [t \in AllTables |-> FALSE]
                                ELSE table_exists
             /\ local_rows' = IF dropped THEN [t \in AllTables |-> EmptyBag(t)]
                              ELSE local_rows
             /\ Returned("reset_db",
                    <<Command("reset_db", "run_silently", "local", "dropdb; createdb",
                              <<>>, FALSE, <<>>)>>,
                    created /\ (dropped \/ ~db_exists))
    /\ UNCHANGED <<file_vars, ps_vars>>

\* pg_dump prod -s -t ... -f raw/prod.schema.sql, silently: the dump is
\* written, or the command fails and leaves the file as it was or empty.
download_schema ==
    /\ AtStep("download_schema")
    /\ \E o \in {"ok", "stale", "empty"} :
         /\ raw_file' = IF o = "ok" THEN Present(RawDump)
                        ELSE IF o = "empty" THEN Present(<<>>) ELSE raw_file
         /\ Returned("download_schema",
                <<Command("download_schema", "run_silently", "prod", "pg_dump -s",
                          all_tables, FALSE, <<>>)>>,
                o = "ok")
    /\ UNCHANGED <<processed_file, data_file, csv_file, db_vars, ps_vars>>

\* pg_dump prod -a -t ... -f raw/prod.data.sql, silently.
download_data_for_small_tables ==
    /\ AtStep("download_data_for_small_tables")
    /\ \E o \in {"ok", "stale", "empty"} :
         /\ data_file' = IF o = "ok"
                         THEN Present(UNION {ProdRows(t) : t \in SmallTables})
                         ELSE IF o = "empty" THEN Present({}) ELSE data_file
         /\ Returned("download_data_for_small_tables",
                <<Command("download_data_for_small_tables", "run_silently", "prod",
                          "pg_dump -a", small_tables, FALSE, <<>>)>>,
                o = "ok")
    /\ UNCHANGED <<raw_file, processed_file, csv_file, db_vars, ps_vars>>

\* The file a \copy ... to leaves: the rows of the query, or, when the command
\* fails, the file as it was or an empty file.
Downloaded(t, o, rows) ==
    IF o = "ok" THEN Present(rows)
    ELSE IF o = "empty" THEN Present({}) ELSE csv_file[t]

\* For every sampled table, silently: \copy (select * from <table>
\* tablesample system (<sample>) where shop_id in <tuple>) to the table's file.
download_sample_of_data_for_large_tables ==
    /\ AtStep("download_sample_of_data_for_large_tables")
    /\ \E o \in [LargeTables -> {"ok", "stale", "empty"}] :
       \E sample \in [LargeTables -> SUBSET UNION {ProdRows(t) : t \in LargeTables}] :
         /\ \A t \in LargeTables :
              /\ sample[t] \subseteq Matching(t, shop_ids)
              /\ o[t] = "ok" => ValidInList(Predicate(shop_ids))
              /\ o[t] # "ok" => sample[t] = {}
         /\ csv_file' = [t \in LargeTables |-> Downloaded(t, o[t], sample[t])]
         /\ Returned("download_sample_of_data_for_large_tables",
                [k \in 1..Len(large_tables) |->
                    Command("download_sample_of_data_for_large_tables",
                            "run_silently", "prod", "copy to", <<large_tables[k]>>,
                            TRUE, Predicate(shop_ids))],
                \A t \in LargeTables : o[t] = "ok")
    /\ UNCHANGED <<raw_file, processed_file, data_file, db_vars, ps_vars>>

\* For every sampled table, silently: \copy (select * from <table>
\* where shop_id in <tuple>) to the table's file.
download_shop_specific_data_for_large_tables ==
    /\ AtStep("download_shop_specific_data_for_large_tables")
    /\ \E o \in [LargeTables -> {"ok", "stale", "empty"}] :
         /\ \A t \in LargeTables : o[t] = "ok" => ValidInList(Predicate(shop_ids))
         /\ csv_file' = [t \in LargeTables |->
                            Downloaded(t, o[t], Matching(t, shop_ids))]
         /\ Returned("download_shop_specific_data_for_large_tables",
                [k \in 1..Len(large_tables) |->
                    Command("download_shop_specific_data_for_large_tables",
                            "run_silently", "prod", "copy to", <<large_tables[k]>>,
                            FALSE, Predicate(shop_ids))],
                \A t \in LargeTables : o[t] = "ok")
    /\ UNCHANGED <<raw_file, processed_file, data_file, db_vars, ps_vars>>


\* ------------------------------------------------------------ process_schema

\* open("raw/prod.schema.sql") and f.read(): the file is there, or open raises
\* FileNotFoundError, which nothing catches.
ps_open ==
    /\ AtStep("process_schema")
    /\ ppc = "open"
    /\ invoked' = Append(invoked, "process_schema")
    /\ IF raw_file = ABSENT
       THEN /\ status' = "crashed"
            /\ UNCHANGED <<ppc, text>>
       ELSE /\ text' = Content(raw_file)
            /\ ppc' = "findall"
            /\ UNCHANGED status
    /\ UNCHANGED <<cmd, pc, runs, log, all_ok, repeated, config, db_vars, file_vars,
                   stmts, found, processed>>

\* processed = re.findall("CREATE TABLE .*?;\n", text, re.DOTALL)
ps_findall ==
    /\ AtStep("process_schema")
    /\ ppc = "findall"
    /\ processed' = FindAll(text)
    /\ found' = processed'
    /\ ppc' = "sub"
    /\ UNCHANGED <<config, run_vars, db_vars, file_vars, stmts, text>>

\* processed = [re.sub("bigint DEFAULT nextval.*,", "serial,", t, re.MULTILINE)
\*              for t in processed]
ps_sub ==
    /\ AtStep("process_schema")
    /\ ppc = "sub"
    /\ processed' = RewriteAll(processed)
    /\ ppc' = "write"
    /\ UNCHANGED <<config, run_vars, db_vars, file_vars, stmts, text, found>>

\* processed += alterations; g.write("\n".join(processed))
ps_write ==
    /\ AtStep("process_schema")
    /\ ppc = "write"
    /\ processed' = AppendAlterations(processed, alterations)
    /\ processed_file' = Present(JoinNL(processed'))
    /\ ppc' = "open"
    /\ Return(<<>>, TRUE)
    /\ UNCHANGED <<invoked, raw_file, data_file, csv_file, db_vars, stmts, text,
                   found>>

\* ------------------------------------------------ steps on the local database

\* The tables a schema file defines: the names after the CREATE TABLE keyword.
TablesDefined(file) ==
    IF file = ABSENT THEN {}
    ELSE {Content(file)[i + 1] :
             i \in {k \in 1..(Len(Content(file)) - 1) : Content(file)[k] = CT}}

\* For every table, silently: drop table if exists <table> cascade.
drop_tables ==
    /\ AtStep("drop_tables")
    /\ \E eff \in [AllTables -> BOOLEAN] :
         LET dropped(t) == eff[t] /\ db_exists /\ table_exists[t]
         IN  /\ table_exists' = [t \in AllTables |-> table_exists[t] /\ ~dropped(t)]
             /\ local_rows' = [t \in AllTables |->
                                  IF dropped(t) THEN EmptyBag(t) ELSE local_rows[t]]
             /\ Returned("drop_tables",
                    [k \in 1..Len(all_tables) |->
                        Command("drop_tables", "run_silently", "local",
                                "drop table if exists", <<all_tables[k]>>, FALSE,
                                <<>>)],
                    db_exists /\ \A t \in AllTables : eff[t])
    /\ UNCHANGED <<db_exists, file_vars, ps_vars>>

\* psql local_prod -f processed/prod.schema.sql, silently: every statement of
\* the file runs on its own, and CREATE TABLE fails for a table that exists.
create_tables ==
    /\ AtStep("create_tables")
    /\ \E eff \in [AllTables -> BOOLEAN] :
         LET created(t) == /\ eff[t] /\ db_exists /\ ~table_exists[t]
                           /\ t \in TablesDefined(processed_file)
         IN  /\ table_exists' = [t \in AllTables |-> table_exists[t] \/ created(t)]
             /\ Returned("create_tables",
                    <<Command("create_tables", "run_silently", "local",
                              "psql -f schema", all_tables, FALSE, <<>>)>>,
                    \A t \in AllTables : created(t))
    /\ UNCHANGED <<db_exists, local_rows, file_vars, ps_vars>>

\* psql local_prod -f raw/prod.data.sql, silently: one COPY per table.
load_data_for_small_tables ==
    /\ AtStep("load_data_for_small_tables")
    /\ \E eff \in [SmallTables -> BOOLEAN] :
         LET loaded(t) == /\ eff[t] /\ db_exists /\ table_exists[t]
                          /\ data_file # ABSENT
         IN  /\ local_rows' = [t \in AllTables |->
                                  IF t \in SmallTables /\ loaded(t)
                                  THEN Copied(local_rows[t], Content(data_file))
                                  ELSE local_rows[t]]
             /\ Returned("load_data_for_small_tables",
                    <<Command("load_data_for_small_tables", "run_silently", "local",
                              "psql -f data", small_tables, FALSE, <<>>)>>,
                    \A t \in SmallTables : loaded(t))
    /\ UNCHANGED <<db_exists, table_exists, file_vars, ps_vars>>

\* For every sampled table, with the output shown: \copy <table> from the
\* table's file.  A COPY that fails adds no row.
load_data_for_large_tables ==
    /\ AtStep("load_data_for_large_tables")
    /\ \E eff \in [LargeTables -> BOOLEAN] :
         LET loaded(t) == /\ eff[t] /\ db_exists /\ table_exists[t]
                          /\ csv_file[t] # ABSENT
         IN  /\ local_rows' = [t \in AllTables |->
                                  IF t \in LargeTables /\ loaded(t)
                                  THEN Copied(local_rows[t], Content(csv_file[t]))
                                  ELSE local_rows[t]]
             /\ Returned("load_data_for_large_tables",
                    [k \in 1..Len(large_tables) |->
                        Command("load_data_for_large_tables", "run", "local",
                                "copy from", <<large_tables[k]>>, FALSE, <<>>)],
                    \A t \in LargeTables : loaded(t))
    /\ UNCHANGED <<db_exists, table_exists, file_vars, ps_vars>>

\* A truncate that removes nothing.
TruncateKeeps(rows, t) == rows

\* The rows of a table after a truncate that took effect.
Truncated(rows, t) == EmptyBag(t)

\* For every sampled table, silently: truncate <table>.
truncate_large_tables ==
    /\ AtStep("truncate_large_tables")
    /\ \E eff \in [LargeTables -> BOOLEAN] :
         LET truncated(t) == eff[t] /\ db_exists /\ table_exists[t]
         IN  /\ local_rows' = [t \in AllTables |->
                                  IF t \in LargeTables /\ truncated(t)
                                  THEN Truncated(local_rows[t], t)
                                  ELSE local_rows[t]]
             /\ Returned("truncate_large_tables",
                    [k \in 1..Len(large_tables) |->
                        Command("truncate_large_tables", "run_silently", "local",
                                "truncate", <<large_tables[k]>>, FALSE, <<>>)],
                    \A t \in LargeTables : truncated(t))
    /\ UNCHANGED <<db_exists, table_exists, file_vars, ps_vars>>

\* ------------------------------------------------------------ specification

\* A fresh checkout on a machine without the local database.
Init ==
    /\ cmd = "none"
    /\ status = "idle"
    /\ pc = 0
    /\ runs = 0
    /\ shop_ids \in KeySets
    /\ alterations = <<A1>>
    /\ invoked = <<>>
    /\ log = <<>>
    /\ all_ok = TRUE
    /\ repeated = FALSE
    /\ db_exists = FALSE
    /\ table_exists = [t \in AllTables |-> FALSE]
    /\ local_rows = [t \in AllTables |-> EmptyBag(t)]
    /\ raw_file = ABSENT
    /\ processed_file = ABSENT
    /\ data_file = ABSENT
    /\ csv_file = [t \in LargeTables |-> ABSENT]
    /\ ppc = "open"
    /\ stmts = <<>>
    /\ text = <<>>
    /\ found = <<>>
    /\ processed = <<>>

Next ==
    \/ \E c \in Commands, keys \in KeySets : Start(c, keys)
    \/ reset_db
    \/ download_schema
    \/ ps_open
    \/ ps_findall
    \/ ps_sub
    \/ ps_write
    \/ drop_tables
    \/ create_tables
    \/ download_data_for_small_tables
    \/ download_sample_of_data_for_large_tables
    \/ load_data_for_small_tables
    \/ load_data_for_large_tables
    \/ truncate_large_tables
    \/ download_shop_specific_data_for_large_tables

Spec == Init /\ [][Next]_vars


\* ---------------------------------------- the schema rewriter on its inputs

\* The sequences over S of length at most n.
SeqsUpTo(S, n) == UNION {[1..k -> S] : k \in 0..n}

\* A statement of a schema text: a table definition or another statement
\* (here a sequence), its body, and whether a line break follows its semicolon.
StmtHead(s) == IF s.kind = "table" THEN CT ELSE CS
StmtCore(s) == <<StmtHead(s)>> \o s.body \o <<SEMI>>
StmtText(s) == StmtCore(s) \o (IF s.nl THEN <<NL>> ELSE <<>>)

RECURSIVE Flatten(_)
Flatten(ss) == IF Len(ss) = 0 THEN <<>> ELSE StmtText(ss[1]) \o Flatten(Tail(ss))

IsTable(s) == s.kind = "table"
TableStmts(ss) == SelectSeq(ss, IsTable)

SimpleBodies == {<<WORD>>, <<WORD, NL, WORD>>}
ColumnTokens == {NV, INV, COMMA, NL, WORD}

\* Schema texts of up to MaxStmts statements with plain bodies, and single
\* table definitions with every column list of up to MaxBody tokens.
SchemaInputs ==
    SeqsUpTo([kind : {"table", "other"}, body : SimpleBodies, nl : BOOLEAN], MaxStmts)
    \cup {<<[kind |-> "table", body |-> b, nl |-> TRUE]>> :
             b \in SeqsUpTo(ColumnTokens, MaxBody)}

AlterationInputs == {<<>>, <<A1>>, <<A1, A2>>, <<A2, A1>>}

\* reload has run download_schema, which left some schema text in
\* raw/prod.schema.sql, and is about to invoke process_schema.
InitSchema ==
    /\ cmd = "reload"
    /\ status = "running"
    /\ pc = 1
    /\ runs = 1
    /\ shop_ids = <<"shop_1">>
    /\ alterations \in AlterationInputs
    /\ invoked = <<"download_schema">>
    /\ log = <<Command("download_schema", "run_silently", "prod", "pg_dump -s",
                       all_tables, FALSE, <<>>)>>
    /\ all_ok = TRUE
    /\ repeated = FALSE
    /\ db_exists = FALSE
    /\ table_exists = [t \in AllTables |-> FALSE]
    /\ local_rows = [t \in AllTables |-> EmptyBag(t)]
    /\ stmts \in SchemaInputs
    /\ raw_file = Present(Flatten(stmts))
    /\ processed_file = ABSENT
    /\ data_file = ABSENT
    /\ csv_file = [t \in LargeTables |-> ABSENT]
    /\ ppc = "open"
    /\ text = <<>>
    /\ found = <<>>
    /\ processed = <<>>

NextSchema == ps_open \/ ps_findall \/ ps_sub \/ ps_write

SpecSchema == InitSchema /\ [][NextSchema]_vars

\* ------------------------------------------ the downloads on every key set

KeyInputs == SeqsUpTo(ShopKeys, MaxKeys)

InitKeys ==
    /\ cmd = "none"
    /\ status = "idle"
    /\ pc = 0
    /\ runs = 0
    /\ shop_ids \in KeyInputs
    /\ alterations = <<A1>>
    /\ invoked = <<>>
    /\ log = <<>>
    /\ all_ok = TRUE
    /\ repeated = FALSE
    /\ db_exists = FALSE
    /\ table_exists = [t \in AllTables |-> FALSE]
    /\ local_rows = [t \in AllTables |-> EmptyBag(t)]
    /\ raw_file = ABSENT
    /\ processed_file = ABSENT
    /\ data_file = ABSENT
    /\ csv_file = [t \in LargeTables |-> ABSENT]
    /\ ppc = "open"
    /\ stmts = <<>>
    /\ text = <<>>
    /\ found = <<>>
    /\ processed = <<>>

\* One run of any command with the key set of config.py.
NextKeys ==
    \/ \E c \in Commands : runs = 0 /\ Start(c, shop_ids)
    \/ reset_db
    \/ download_schema
    \/ ps_open
    \/ ps_findall
    \/ ps_sub
    \/ ps_write
    \/ drop_tables
    \/ create_tables
    \/ download_data_for_small_tables
    \/ download_sample_of_data_for_large_tables
    \/ load_data_for_small_tables
    \/ load_data_for_large_tables
    \/ truncate_large_tables
    \/ download_shop_specific_data_for_large_tables

SpecKeys == InitKeys /\ [][NextKeys]_vars


\* ------------------------------------------------------------------ claims

Occurrences(seq, x) == Cardinality({k \in 1..Len(seq) : seq[k] = x})

IsPrefix(p, seq) == Len(p) <= Len(seq) /\ SubSeq(seq, 1, Len(p)) = p

Ended == status \in {"done", "crashed"}

EightSteps ==
    <<"download_schema", "process_schema", "drop_tables", "create_tables",
      "download_data_for_small_tables",
      "download_sample_of_data_for_large_tables",
      "load_data_for_small_tables", "load_data_for_large_tables">>

ThreeSteps ==
    <<"truncate_large_tables", "download_shop_specific_data_for_large_tables",
      "load_data_for_large_tables">>

\* C1: a run of the reload flow has invoked, when it ends, exactly the eight
\* steps, each once, in the order download_schema, process_schema, drop_tables,
\* create_tables, download_data_for_small_tables,
\* download_sample_of_data_for_large_tables, load_data_for_small_tables,
\* load_data_for_large_tables; a full rebuild has invoked reset_db and then
\* the same eight.
C1_ReloadInvokesEightStepsInOrder ==
    /\ (cmd = "reload" /\ Ended) => invoked = EightSteps
    /\ (cmd = "full" /\ Ended) => invoked = <<"reset_db">> \o EightSteps

\* C2: in the reload flow and in the partition refresh flow no outcome of a
\* step ends the run early: a run only ends by returning, and then every step
\* of its flow has been invoked exactly once.
C2_LaterStepsRunWhateverHappens ==
    cmd \in {"reload", "reload_for_shops"} =>
        /\ status # "crashed"
        /\ status = "done" =>
              \A k \in 1..Len(Steps(cmd)) : Occurrences(invoked, Steps(cmd)[k]) = 1

LoadSteps == {"load_data_for_small_tables", "load_data_for_large_tables"}

\* C3: every command of a data-loading step goes through the runner that
\* shows its output (run, not run_silently), and the flow goes on after a
\* loading step whatever the load did.
C3_LoadStepsUseVisibleRunner ==
    /\ \A k \in 1..Len(log) : log[k].step \in LoadSteps => log[k].runner = "run"
    /\ (status = "done" /\ cmd \in {"reload", "full"}) =>
          Occurrences(invoked, "load_data_for_large_tables") = 1

InKeySet(r) == r.shop_id \in Range(shop_ids)

SecondRefreshDone == cmd = "reload_for_shops" /\ repeated /\ status = "done"

C5_RefreshFlowThreeSteps ==
    cmd = "reload_for_shops" =>
        /\ status # "crashed"
        /\ IsPrefix(invoked, ThreeSteps)
        /\ status = "done" => invoked = ThreeSteps
        /\ \A k \in 1..Len(log) :
              /\ Range(log[k].table) \subseteq LargeTables
              /\ Range(log[k].table) # {}
              /\ log[k].what \in {"truncate", "copy to", "copy from"}
              /\ log[k].what = "truncate" => Occurrences(invoked, ThreeSteps[1]) = 1
              /\ log[k].what = "copy to" =>
                    /\ ~log[k].sampled
                    /\ log[k].pred = TupleRepr(<<HACK>> \o shop_ids)
                    /\ \A j \in 1..k : log[j].what # "copy from"
              /\ log[k].what = "copy from" => \E j \in 1..k : log[j].what = "copy to"

C5_Witness ==
    /\ cmd = "reload_for_shops"
    /\ status = "done"
    /\ Len(log) = 3 * Len(large_tables)

HasNextval(t) == \E k \in 1..Len(t) : t[k] \in {NV, INV}

\* C6: once the rewrite step has run, no rewritten statement refers to
\* nextval any more: each sequence default has become serial, however many
\* there are and wherever they stand; a statement without one is unchanged.
C6_RewriteLeavesNoNextval ==
    (ppc = "write" /\ Len(processed) = Len(found)) =>
        \A k \in 1..Len(found) :
            /\ ~HasNextval(processed[k])
            /\ Occurrences(processed[k], SERIAL)
                  = Occurrences(found[k], NV) + Occurrences(found[k], INV)
            /\ ~HasNextval(found[k]) => processed[k] = found[k]

Extracted == ppc \in {"sub", "write"}

\* C7 as stated: the extraction step yields one statement per table definition
\* of the schema text, in order, from its CREATE TABLE keyword to its own
\* semicolon, and nothing of the other statements.
C7_ExtractionYieldsTableStatements ==
    Extracted =>
        /\ Len(found) = Len(TableStmts(stmts))
        /\ \A k \in 1..Len(found) :
              found[k] \in {StmtCore(TableStmts(stmts)[k]),
                            StmtCore(TableStmts(stmts)[k]) \o <<NL>>}

TerminatorsEndLines == \A k \in 1..Len(stmts) : IsTable(stmts[k]) => stmts[k].nl

\* C7 as amended: when a line break follows the semicolon of every table
\* definition (statements holding no other semicolon, and the other
\* statements not holding the CREATE TABLE keyword), the extraction step
\* yields one statement per table definition, in order, from its CREATE TABLE
\* keyword to that line break, and nothing of the other statements.
C7_ExtractionYieldsTableStatementsEndingLines ==
    (Extracted /\ TerminatorsEndLines) =>
        /\ Len(found) = Len(TableStmts(stmts))
        /\ \A k \in 1..Len(found) : found[k] = StmtText(TableStmts(stmts)[k])

C7_Witness ==
    /\ Extracted
    /\ TerminatorsEndLines
    /\ Len(found) = 2
    /\ \E k \in 1..Len(stmts) : ~IsTable(stmts[k])

\* C8: the text written to processed/prod.schema.sql ends with the statements
\* of config.alterations, verbatim, in their order, one per line, and all the
\* table definitions extracted from the raw schema stand before them.
C8_ProcessedSchemaEndsWithAlterations ==
    processed_file # ABSENT =>
        LET w == Content(processed_file)
            a == JoinNL(alterations)
            n == Len(w) - Len(a)
        IN  /\ n >= 0
            /\ SubSeq(w, n + 1, Len(w)) = a
            /\ Len(processed) = Len(found) + Len(alterations)
            /\ \A k \in 1..Len(alterations) : processed[Len(found) + k] = alterations[k]
            /\ \A k \in 1..Len(found) : processed[k][1] = CT
            /\ (Len(found) > 0 /\ Len(alterations) > 0) =>
                  /\ w[n] = NL
                  /\ SubSeq(w, 1, n - 1) = JoinNL(SubSeq(processed, 1, Len(found)))
            /\ Len(alterations) = 0 => w = JoinNL(SubSeq(processed, 1, Len(found)))

C8_Witness ==
    /\ processed_file # ABSENT
    /\ Len(alterations) = 2
    /\ Len(found) >= 1

\* The same for a raw schema without a table definition.
C8_WitnessNoTables ==
    /\ processed_file # ABSENT
    /\ Len(alterations) = 2
    /\ Len(found) = 0

ReloadDone == cmd \in {"reload", "full"} /\ status = "done"

Punctuation == {"(", ")", ", ", COMMA}

Items(pred) == SelectSeq(pred, LAMBDA x : x \notin Punctuation)

Downloads == {k \in 1..Len(log) : log[k].what = "copy to"}

\* C10: with at least one key in shop_ids, the list after "shop_id in" in the
\* command of either download step has at least two items, the sentinel and
\* then every key in its order, and is not written as a tuple of one item.
C10_InListIsPadded ==
    Len(shop_ids) >= 1 =>
        \A k \in Downloads :
            /\ Len(Items(log[k].pred)) >= 2
            /\ log[k].pred[Len(log[k].pred) - 1] # COMMA
            /\ SubSeq(Items(log[k].pred), 2, Len(Items(log[k].pred))) = shop_ids

C10_Witness ==
    /\ Len(shop_ids) = 1
    /\ \E k \in Downloads : log[k].step = "download_sample_of_data_for_large_tables"

\* The same for the download of the partition refresh flow.
C10_WitnessShops ==
    /\ Len(shop_ids) = 1
    /\ \E k \in Downloads :
          log[k].step = "download_shop_specific_data_for_large_tables"

====
